---------------------------- MODULE Spec2Model ----------------------------
(***************************************************************************)
(* State-machine model of the streaming core of tg_streamer_bot:           *)
(*   - AVPlayer          (src/app/deliver/player.py)   playlist and cursor *)
(*   - AVContext         (src/app/deliver/context.py)  PTS bookkeeping     *)
(*   - AVFrameGenerator  (src/app/deliver/streamer.py) frame producer      *)
(*   - AVStreamer        (src/app/deliver/streamer.py) run loop            *)
(*   - command handlers  (src/app/bot/handlers.py)                         *)
(***************************************************************************)
EXTENDS Integers, Sequences, FiniteSets, TLC

VARIABLES
    player,         \* the AVPlayer object
    created,        \* number of MediaAssetPaths objects created so far
    context,        \* the AVContext object
    shutdown_event, \* AVStreamer._shutdown_event (the latch)
    gen,            \* the broadcaster thread: run loop and frame generator
    frame,          \* the frame the generator has yielded to the run loop
    cmd,            \* the command thread (bot handlers)
    hist,           \* what has happened so far (read by the properties only)
    race,           \* two threads calling one playlist operation each
    pacer           \* the wall clock of the run loop and the wait it asked for

streamVars == <<context, shutdown_event, gen, frame, cmd, hist, pacer>>
vars == <<player, created, context, shutdown_event, gen, frame, cmd, hist, race, pacer>>

(***************************************************************************)
(* Bounds of the model.                                                    *)
(***************************************************************************)
\* number of MediaAssetPaths objects ever created (each append creates one)
MaxAssets == 3
\* largest |step| / index distance tried by the playlist operations
MaxStep == 2
\* most frames a filter graph hands out for one pushed frame (or flush)
MaxFilterOut == 1
\* sample count of the audio frames that are not AUDIO_FRAME_SIZE long
OtherFrameSize == 1152
\* the broadcast is followed until offset_video_pts reaches MaxVideoPts or
\* offset_audio_pts reaches MaxAudioFrames frames of AUDIO_FRAME_SIZE samples
MaxVideoPts == 3
MaxAudioFrames == 4
\* the same for the broadcast of an empty playlist
IdleMaxVideoPts == 650
IdleMaxAudioFrames == 1010
\* the part of the broadcast explored when only stop() is called
SoloMaxVideoPts == 1
SoloMaxAudioFrames == 1
\* the part of the broadcast explored with the wall clock, with tracks and
\* with an empty playlist
PacerMaxVideoPts == 3
PacerMaxAudioFrames == 1
PacerIdleMaxVideoPts == 4
PacerIdleMaxAudioFrames == 6
\* the run loop is followed while the output is at most this many video
\* frames behind the clock
MaxLagFrames == 2

\* the counters a keep-alive run can start from: up to GapMaxVideoPts video
\* frames and up to GapMaxAudioFrames audio frames
GapMaxVideoPts == 4
GapMaxAudioFrames == 6

\* number of calls made from outside the broadcaster thread (commands and
\* stop())
MaxCommands == 2

(***************************************************************************)
(* Values.                                                                 *)
(***************************************************************************)
\* Python's None, for the cursor (the setter never stores a negative int)
None == -1
\* "no asset": get_current() returning None
NoAsset == 0

PLAY_AND_DELETE == "PLAY_AND_DELETE"
PLAY_AND_STOP == "PLAY_AND_STOP"
LOOP_PLAYLIST == "LOOP_PLAYLIST"
StreamCursorMode == {PLAY_AND_DELETE, PLAY_AND_STOP, LOOP_PLAYLIST}

VIDEO_CONTENT == "VIDEO_CONTENT"
VIDEO_THUMBNAIL == "VIDEO_THUMBNAIL"
VIDEO_PLACEHOLDER == "VIDEO_PLACEHOLDER"
StreamVisualMode == {VIDEO_CONTENT, VIDEO_THUMBNAIL, VIDEO_PLACEHOLDER}

Assets == 1..MaxAssets
\* integer arguments handed to remove / select / move
IndexArgs == (0 - MaxStep)..(MaxAssets + MaxStep)
\* step arguments handed to next / prev
StepArgs == (0 - MaxStep)..MaxStep

Min(a, b) == IF a <= b THEN a ELSE b
Max(a, b) == IF a >= b THEN a ELSE b
Abs(a) == IF a >= 0 THEN a ELSE 0 - a

(***************************************************************************)
(* Python list primitives.  A list is a sequence; Python index i is        *)
(* element i + 1.                                                          *)
(***************************************************************************)
\* del lst[i] for an index already known to be in 0 .. len-1
ListDel(lst, i) ==
    [k \in 1..(Len(lst) - 1) |-> IF k <= i THEN lst[k] ELSE lst[k + 1]]

\* lst.insert(i, x) for 0 <= i <= len
ListInsert(lst, i, x) ==
    [k \in 1..(Len(lst) + 1) |->
        IF k <= i THEN lst[k] ELSE IF k = i + 1 THEN x ELSE lst[k - 1]]

\* whether lst[i] / del lst[i] raises IndexError (negative indices count
\* from the end)
IndexError(lst, i) == ~((0 - Len(lst)) <= i /\ i < Len(lst))

\* the position Python resolves index i to
PyIndex(lst, i) == IF i < 0 THEN i + Len(lst) ELSE i

(***************************************************************************)
(* AVPlayer as a value: p.playlist, p.cursor (the field _cursor),          *)
(* p.cursor_mode, p.visual_mode, p.is_playing, and p.raised, which records *)
(* that an operation raised an exception.                                  *)
(***************************************************************************)
NewPlayer(visual_mode, cursor_mode) ==
    [playlist |-> <<>>, cursor |-> None, cursor_mode |-> cursor_mode,
     visual_mode |-> visual_mode, is_playing |-> TRUE, raised |-> FALSE]

\* a getter that forgets the range check
CursorValueUnchecked(p) ==
    IF p.cursor = None THEN None
    ELSE IF Len(p.playlist) = 0 THEN None
    ELSE p.cursor

\* the value the cursor property returns
CursorValue(p) ==
    IF p.cursor = None THEN None
    ELSE IF Len(p.playlist) = 0 THEN None
    ELSE IF ~(0 <= p.cursor /\ p.cursor < Len(p.playlist)) THEN None
    ELSE p.cursor

\* the player after the cursor property was read: the getter stores None
\* when it finds the stored cursor out of range
CursorRead(p) == [p EXCEPT !.cursor = CursorValue(p)]

\* cursor setter
CursorSet(p, value) ==
    LET size == Len(p.playlist) IN
    IF value = None \/ size = 0 THEN [p EXCEPT !.cursor = None]
    ELSE IF p.cursor_mode # LOOP_PLAYLIST
         THEN [p EXCEPT !.cursor = IF 0 <= value /\ value < size THEN value ELSE None]
         ELSE [p EXCEPT !.cursor = value % size]

\* append(media)
Append_(p, media) ==
    LET p1 == CursorRead([p EXCEPT !.playlist = Append(p.playlist, media)]) IN
    IF CursorValue(p1) = None THEN CursorSet(p1, 0) ELSE p1

\* a remove that removes nothing
RemoveNothing(p, index) == p

\* remove(index)
Remove(p, index) ==
    IF 0 <= index /\ index < Len(p.playlist)
    THEN LET p1 == CursorRead([p EXCEPT !.playlist = ListDel(p.playlist, index)])
             cur == CursorValue(p1)
         IN  IF cur = None THEN p1
             ELSE IF index < cur THEN CursorSet(p1, cur - 1)
             ELSE IF index = cur THEN CursorSet(p1, Min(cur, Len(p1.playlist) - 1))
             ELSE p1
    ELSE p

\* a select that never applies the PLAY_AND_DELETE policy
SelectNoDelete(p, index) ==
    LET p0 == CursorRead(p) IN
    IF 0 <= index /\ index < Len(p0.playlist) THEN CursorSet(p0, index) ELSE p0

\* a select that makes the cursor none when the index is out of range
SelectOrNone(p, index) ==
    LET p0 == CursorRead(p) IN
    CursorSet(p0, IF 0 <= index /\ index < Len(p0.playlist) THEN index ELSE None)

\* a select that, under PLAY_AND_DELETE with an index out of range, clamps
\* the cursor the way remove() does
SelectClamped(p, index) ==
    LET p0 == CursorRead(p)
        cur == CursorValue(p0)
    IN  IF p0.cursor_mode = PLAY_AND_DELETE /\ cur # None
        THEN LET p1 == [p0 EXCEPT !.playlist = ListDel(p0.playlist, cur)] IN
             IF 0 <= index /\ index < Len(p1.playlist)
             THEN CursorSet(p1, IF index >= cur THEN index - 1 ELSE index)
             ELSE CursorSet(p1, Min(cur, Len(p1.playlist) - 1))
        ELSE IF 0 <= index /\ index < Len(p0.playlist) THEN CursorSet(p0, index)
        ELSE p0

\* select(index)
Select(p, index) ==
    LET p0 == CursorRead(p)
        current_cursor == CursorValue(p0)
        del == p0.cursor_mode = PLAY_AND_DELETE /\ current_cursor # None
    IN  IF del /\ IndexError(p0.playlist, current_cursor)
        THEN [p0 EXCEPT !.raised = TRUE]
        ELSE LET p1 == IF del
                       THEN [p0 EXCEPT !.playlist =
                                ListDel(p0.playlist, PyIndex(p0.playlist, current_cursor))]
                       ELSE p0
                 step == IF del /\ index >= current_cursor THEN 0 - 1 ELSE 0
             IN  IF 0 <= index /\ index < Len(p1.playlist)
                 THEN CursorSet(p1, index + step)
                 ELSE p1

\* a move that relocates the element and leaves the cursor where it was
MoveNoSlide(p, from_index, to_index) ==
    LET size == Len(p.playlist)
        p0 == CursorRead(p)
    IN  IF ~(0 <= from_index /\ from_index < size)
           \/ ~(0 <= to_index /\ to_index < size)
        THEN p
        ELSE IF CursorValue(p0) = None THEN p0
        ELSE [p0 EXCEPT !.playlist =
                 ListInsert(ListDel(p0.playlist, from_index), to_index,
                            p0.playlist[from_index + 1])]

\* move(from_index, to_index)
Move(p, from_index, to_index) ==
    LET size == Len(p.playlist)
        p0 == CursorRead(p)
        cur == CursorValue(p0)
    IN  IF ~(0 <= from_index /\ from_index < size)
           \/ ~(0 <= to_index /\ to_index < size)
        THEN p
        ELSE IF cur = None THEN p0
        ELSE LET item == p0.playlist[from_index + 1]
                 p1 == [p0 EXCEPT !.playlist =
                           ListInsert(ListDel(p0.playlist, from_index), to_index, item)]
             IN  IF from_index = cur THEN CursorSet(p1, to_index)
                 ELSE IF from_index < cur /\ cur <= to_index THEN CursorSet(p1, cur - 1)
                 ELSE IF to_index <= cur /\ cur < from_index THEN CursorSet(p1, cur + 1)
                 ELSE p1

\* the argument next(step) hands to select: (self.cursor or 0) + step
NextIndex(p, step) ==
    (IF CursorValue(p) = None THEN 0 ELSE CursorValue(p)) + step

\* the argument prev(step) hands to select: (self.cursor or 0) - step
PrevIndex(p, step) ==
    (IF CursorValue(p) = None THEN 0 ELSE CursorValue(p)) - step

\* next(step) when no other thread runs between its cursor read and select
Next_(p, step) == Select(CursorRead(p), NextIndex(p, step))

\* prev(step) when no other thread runs between its cursor read and select
Prev(p, step) == Select(CursorRead(p), PrevIndex(p, step))

\* get_current(step): the asset returned
GetCurrent(p, step) ==
    LET cur == CursorValue(p)
        size == Len(p.playlist)
        current_index == cur + step
    IN  IF cur = None THEN NoAsset
        ELSE IF size = 0 THEN NoAsset
        ELSE IF ~(0 <= current_index /\ current_index < size)
             THEN IF p.cursor_mode = LOOP_PLAYLIST
                  THEN p.playlist[(current_index % size) + 1]
                  ELSE NoAsset
             ELSE p.playlist[current_index + 1]

\* clear()
Clear(p) == [p EXCEPT !.playlist = <<>>, !.cursor = None]

\* cursor_mode setter
SetCursorMode(p, mode) == [p EXCEPT !.cursor_mode = mode]

\* visual_mode setter
SetVisualMode(p, mode) == [p EXCEPT !.visual_mode = mode]

\* is_playing setter (pause() / resume())
SetPlaying(p, playing) == [p EXCEPT !.is_playing = playing]

(***************************************************************************)
(* Output timing (src/app/deliver/constants.py).  Durations are rationals  *)
(* in the code; the model counts them in units of 1/TimeScale seconds, a   *)
(* common denominator of AUDIO_TIME_BASE and VIDEO_TIME_BASE, so that they *)
(* stay integers: one audio sample is AudioTick units, one video PTS tick  *)
(* (1001/30000 s) is VideoTick units.                                      *)
(***************************************************************************)
AUDIO_RATE == 48000
AUDIO_FRAME_SIZE == 1024
VIDEO_RATE_NUM == 30000
VIDEO_RATE_DEN == 1001
SYNC_TOLERANCE_MS == 50
MIN_SYNC_DELAY_MS == 1
MAX_SYNC_DELAY_MS == 50

TimeScale == 5 * AUDIO_RATE
AudioTick == TimeScale \div AUDIO_RATE
VideoTick == (VIDEO_RATE_DEN * TimeScale) \div VIDEO_RATE_NUM
SYNC_TOLERANCE == (SYNC_TOLERANCE_MS * TimeScale) \div 1000
MIN_SYNC_DELAY == (MIN_SYNC_DELAY_MS * TimeScale) \div 1000
MAX_SYNC_DELAY == (MAX_SYNC_DELAY_MS * TimeScale) \div 1000

\* sample counts of audio frames: the size of the silent frame and of the
\* frames of most codecs, and another size
AudioSamples == {AUDIO_FRAME_SIZE, OtherFrameSize}

\* what a filter graph hands out for one push: up to MaxFilterOut frames
\* (video: their number; audio: the sample count of each, out of sizes)
VideoFilterOut == 0..MaxFilterOut
AudioFilterOut(sizes) == UNION {[1..n -> sizes] : n \in 0..MaxFilterOut}

\* sample counts of the filtered frames of the tracks that are played
TrackSamples == {AUDIO_FRAME_SIZE}

(***************************************************************************)
(* AVContext as a value: the two PTS counters, whether each filter graph   *)
(* exists, and the PTS stamped on the frames handed to the video encoder   *)
(* (video_pts) and to the audio encoder (audio_pts), in the order they     *)
(* were handed over; container_open: the output container of the context   *)
(* is open; closed: close() has run; video_eos / audio_eos: how many frames *)
(* the encoder had been handed when it was sent None (end of stream), None *)
(* while it has not been sent it.                                          *)
(***************************************************************************)
NewContext ==
    [offset_video_pts |-> 0, offset_audio_pts |-> 0,
     video_graph |-> FALSE, audio_graph |-> FALSE,
     container_open |-> TRUE, closed |-> FALSE,
     video_eos |-> None, audio_eos |-> None,
     video_pts |-> <<>>, audio_pts |-> <<>>]

\* an _encode_video that stamps the counter without advancing it
EncodeVideoFrameNoAdvance(c) ==
    [c EXCEPT !.video_pts = Append(c.video_pts, c.offset_video_pts)]

\* _encode_video(frame) for a frame that is not None
EncodeVideoFrame(c) ==
    [c EXCEPT !.offset_video_pts = c.offset_video_pts + 1,
              !.video_pts = Append(c.video_pts, c.offset_video_pts + 1)]

\* _encode_audio(frame) for a frame that is not None
EncodeAudioFrame(c, samples) ==
    [c EXCEPT !.offset_audio_pts = c.offset_audio_pts + samples,
              !.audio_pts = Append(c.audio_pts, c.offset_audio_pts + samples)]

RECURSIVE EncodeVideoFrames(_, _)
\* _encode_video for each of n filtered frames
EncodeVideoFrames(c, n) ==
    IF n = 0 THEN c ELSE EncodeVideoFrames(EncodeVideoFrame(c), n - 1)

RECURSIVE EncodeAudioFrames(_, _)
\* _encode_audio for each filtered frame, outs their sample counts
EncodeAudioFrames(c, outs) ==
    IF Len(outs) = 0 THEN c
    ELSE EncodeAudioFrames(EncodeAudioFrame(c, Head(outs)), Tail(outs))

\* encode_video(frame, apply_filters); is_frame is FALSE for frame=None,
\* n is the number of frames the video graph hands out for this push
EncodeVideo(c, is_frame, apply_filters, n) ==
    IF c.video_graph /\ apply_filters THEN EncodeVideoFrames(c, n)
    ELSE IF is_frame THEN EncodeVideoFrame(c)
    ELSE c

\* encode_audio(frame, apply_filters); samples is frame.samples, outs the
\* frames the audio graph hands out for this push
EncodeAudio(c, is_frame, samples, apply_filters, outs) ==
    IF c.audio_graph /\ apply_filters THEN EncodeAudioFrames(c, outs)
    ELSE IF is_frame THEN EncodeAudioFrame(c, samples)
    ELSE c

\* create_graph(stream) for the streams the opened container has
CreateGraphs(c, has_video, has_audio) ==
    [c EXCEPT !.video_graph = IF has_video THEN TRUE ELSE c.video_graph,
              !.audio_graph = IF has_audio THEN TRUE ELSE c.audio_graph]

\* _encode_audio(None) and _encode_video(None)
EncodeNone(c) ==
    [c EXCEPT !.audio_eos = Len(c.audio_pts), !.video_eos = Len(c.video_pts)]

\* a flush() that also sends None to both encoders
FlushGraphsAndEncoders(c, outs, n) ==
    LET c1 == IF c.audio_graph
              THEN [EncodeAudio(c, FALSE, 0, TRUE, outs) EXCEPT !.audio_graph = FALSE]
              ELSE c
        c2 == IF c1.video_graph
              THEN [EncodeVideo(c1, FALSE, TRUE, n) EXCEPT !.video_graph = FALSE]
              ELSE c1
    IN  EncodeNone(c2)

\* a flush that starts the counters anew for the next track
FlushGraphsResetOffsets(c, outs, n) ==
    [c EXCEPT !.audio_graph = FALSE, !.video_graph = FALSE,
              !.offset_audio_pts = 0, !.offset_video_pts = 0]

\* flush(): drain and release both graphs (outs, n: what they hand out)
FlushGraphs(c, outs, n) ==
    LET c1 == IF c.audio_graph
              THEN [EncodeAudio(c, FALSE, 0, TRUE, outs) EXCEPT !.audio_graph = FALSE]
              ELSE c
    IN  IF c1.video_graph
        THEN [EncodeVideo(c1, FALSE, TRUE, n) EXCEPT !.video_graph = FALSE]
        ELSE c1

\* close(): flush(), then None to both encoders
Close(c, outs, n) == [EncodeNone(FlushGraphs(c, outs, n)) EXCEPT !.closed = TRUE]

\* audio_duration / video_duration / duration, in 1/TimeScale seconds
AudioDuration(c) == c.offset_audio_pts * AudioTick
VideoDuration(c) == c.offset_video_pts * VideoTick
Duration(c) == Max(VideoDuration(c), AudioDuration(c))
AVGap(c) == Abs(AudioDuration(c) - VideoDuration(c))

\* is_audio_video_synced
IsAudioVideoSynced(c) == AVGap(c) <= SYNC_TOLERANCE

\* a pacer that does not cap the wait
PacerWaitUncapped(delay) == IF delay > MIN_SYNC_DELAY THEN delay ELSE 0

\* a pacer that never waits
PacerWaitNever(delay) == 0

\* the wait the pacer asks for (0: none): if delay > MIN_SYNC_DELAY:
\* self.wait(min(delay, MAX_SYNC_DELAY))
PacerWait(delay) == IF delay > MIN_SYNC_DELAY THEN Min(delay, MAX_SYNC_DELAY) ELSE 0

(***************************************************************************)
(* Frames.  A frame is known by its identity: the cached silent audio      *)
(* frame and the cached placeholder video frame of StreamerState, a        *)
(* track's thumbnail frame, or a frame decoded from a track.               *)
(***************************************************************************)
NoFrame == [kind |-> "none", id |-> "none", track |-> NoAsset, samples |-> 0]
\* StreamerState.audio_frame (create_silence_frame)
SilenceFrame ==
    [kind |-> "audio", id |-> "silence", track |-> NoAsset, samples |-> AUDIO_FRAME_SIZE]
\* StreamerState.video_frame (prepare_video_frame(placeholder))
PlaceholderFrame ==
    [kind |-> "video", id |-> "placeholder", track |-> NoAsset, samples |-> 0]
ThumbnailFrame(media) ==
    [kind |-> "video", id |-> "thumbnail", track |-> media, samples |-> 0]
DecodedFrame(kind, media) ==
    [kind |-> kind, id |-> "decoded", track |-> media,
     samples |-> IF kind = "audio" THEN AUDIO_FRAME_SIZE ELSE 0]

\* an is_cached that knows no cached frame
IsCachedNever(f) == FALSE

\* StreamerState.is_cached
IsCached(f) == f = SilenceFrame \/ f = PlaceholderFrame

(***************************************************************************)
(* The broadcaster thread.  gen.pc is where it stands:                     *)
(*   generate_frames   head of the loop of generate_frames                 *)
(*   open              _process_track entered for gen.media                *)
(*   decode            the demux/decode loop of _process_track             *)
(*   pause             head of the loop of _generate_pause_frames          *)
(*   visual            the match of _process_video_frame                   *)
(*   placeholder       head of the loop of _generate_placeholder_frames    *)
(*   placeholder_sync  after its yield (the is_audio_video_synced test)    *)
(*   flush, next_read, next_select   the finally block of _process_track   *)
(*   run_check, run_encode, run_wait body of the loop of _run_streaming    *)
(*   run_exit, run_finally, done     the way out of run()                  *)
(*   run_start         in run(), before the StreamerState is built         *)
(* error: av.open of a track raised; failed: an exception raised inside    *)
(* the with block of run() reached its except clauses; raised: run() was   *)
(* left by an exception.                                                   *)
(***************************************************************************)
NewGen ==
    [pc |-> "generate_frames", media |-> NoAsset, prev_media |-> NoAsset,
     has_video |-> FALSE, has_audio |-> FALSE, thumb_cached |-> FALSE,
     caller |-> "idle", resume |-> "generate_frames", index |-> 0,
     error |-> FALSE, closing |-> FALSE, failed |-> FALSE, raised |-> FALSE]

NewCmd == [pc |-> "idle", index |-> 0, count |-> 0]

\* expect: the asset a completed skip makes the producer owe (see C3);
\* paused_emit: a decoded frame was emitted since is_playing became false
NewHist == [expect |-> NoAsset, paused_emit |-> FALSE]

\* start_time = time.time(): no time has elapsed, no wait was asked for
NewPacer == [elapsed |-> 0, wait |-> 0]

\* the broadcaster and the command thread where nothing has run yet
StreamAtRest ==
    /\ context = NewContext
    /\ shutdown_event = FALSE
    /\ gen = NewGen
    /\ frame = NoFrame
    /\ cmd = NewCmd
    /\ hist = NewHist
    /\ pacer = NewPacer

\* no concurrent callers
NoRace == [active |-> FALSE]

(***************************************************************************)
(* Playlist operations called one at a time (a single caller).             *)
(***************************************************************************)
InitPlayer ==
    /\ \E vm \in StreamVisualMode, cm \in StreamCursorMode : player = NewPlayer(vm, cm)
    /\ created = 0
    /\ race = NoRace
    /\ StreamAtRest

\* append of a freshly created MediaAssetPaths (cmd_play creates one per call)
DoAppend ==
    /\ created < MaxAssets
    /\ created' = created + 1
    /\ player' = Append_(player, created + 1)
    /\ UNCHANGED <<race, streamVars>>

DoRemove ==
    /\ \E index \in IndexArgs : player' = Remove(player, index)
    /\ UNCHANGED <<created, race, streamVars>>

DoSelect ==
    /\ \E index \in IndexArgs : player' = Select(player, index)
    /\ UNCHANGED <<created, race, streamVars>>

DoMove ==
    /\ \E from_index \in IndexArgs, to_index \in IndexArgs :
           player' = Move(player, from_index, to_index)
    /\ UNCHANGED <<created, race, streamVars>>

DoNext ==
    /\ \E step \in StepArgs : player' = Next_(player, step)
    /\ UNCHANGED <<created, race, streamVars>>

DoPrev ==
    /\ \E step \in StepArgs : player' = Prev(player, step)
    /\ UNCHANGED <<created, race, streamVars>>

DoClear ==
    /\ player' = Clear(player)
    /\ UNCHANGED <<created, race, streamVars>>

DoSetCursorMode ==
    /\ \E mode \in StreamCursorMode : player' = SetCursorMode(player, mode)
    /\ UNCHANGED <<created, race, streamVars>>

NextPlayer ==
    \/ DoAppend
    \/ DoRemove
    \/ DoSelect
    \/ DoMove
    \/ DoNext
    \/ DoPrev
    \/ DoClear
    \/ DoSetCursorMode

SpecPlayer == InitPlayer /\ [][NextPlayer]_vars

(***************************************************************************)
(* C10: after any sequence of append, remove, select, move, next, prev,    *)
(* clear and cursor_mode changes, under any cursor policy and for any      *)
(* integer arguments, the cursor the player reports is None or an index c  *)
(* with 0 <= c < len(playlist), and no operation has raised an exception.  *)
(***************************************************************************)
C10_CursorValid ==
    /\ ~player.raised
    /\ \/ CursorValue(player) = None
       \/ 0 <= CursorValue(player) /\ CursorValue(player) < Len(player.playlist)

\* the stored cursor is stale (beyond the end of a non-empty playlist) and
\* the next read of the property has to coerce it
C10_Witness ==
    /\ player.cursor # None
    /\ Len(player.playlist) > 0
    /\ player.cursor >= Len(player.playlist)

(***************************************************************************)
(* Two threads (the producer's and a command's) call one playlist          *)
(* operation each.  Every operation runs its body while holding the RLock, *)
(* so its body is one step; next() and prev() evaluate their argument      *)
(* (self.cursor or 0) +/- step BEFORE select() takes the lock, so they are *)
(* two steps and the other thread may run in between.                      *)
(***************************************************************************)
Threads == {1, 2}

\* the operations a thread may call on a playlist that held n assets when
\* the two calls started; thread t appends the asset n + t
RaceOps(n, t) ==
    {[name |-> "append", a |-> n + t, b |-> 0]}
    \cup {[name |-> "clear", a |-> 0, b |-> 0]}
    \cup {[name |-> nm, a |-> i, b |-> 0] : nm \in {"remove", "select"}, i \in IndexArgs}
    \cup {[name |-> "move", a |-> i, b |-> j] : i \in IndexArgs, j \in IndexArgs}
    \cup {[name |-> nm, a |-> st, b |-> 0] : nm \in {"next", "prev"}, st \in StepArgs}

\* an operation run alone, from call to return
ApplyOp(p, op) ==
    CASE op.name = "append" -> Append_(p, op.a)
      [] op.name = "remove" -> Remove(p, op.a)
      [] op.name = "select" -> Select(p, op.a)
      [] op.name = "move" -> Move(p, op.a, op.b)
      [] op.name = "next" -> Next_(p, op.a)
      [] op.name = "prev" -> Prev(p, op.a)
      [] op.name = "clear" -> Clear(p)

NoOp == [name |-> "none", a |-> 0, b |-> 0]

InitRace ==
    /\ \E n \in 0..MaxAssets, cm \in StreamCursorMode :
         \E c \in (IF n = 0 THEN {None} ELSE 0..(n - 1)) :
            /\ player = [NewPlayer(VIDEO_CONTENT, cm) EXCEPT
                            !.playlist = [k \in 1..n |-> k], !.cursor = c]
            /\ created = n
    /\ race = [active |-> TRUE, init |-> player,
               op |-> [t \in Threads |-> NoOp],
               pc |-> [t \in Threads |-> "idle"],
               index |-> [t \in Threads |-> 0]]
    /\ StreamAtRest

\* a thread calls an operation whose whole body holds the lock
RaceLockedOp(t) ==
    /\ race.pc[t] = "idle"
    /\ \E op \in RaceOps(Len(race.init.playlist), t) :
          /\ op.name \notin {"next", "prev"}
          /\ player' = ApplyOp(player, op)
          /\ race' = [race EXCEPT !.op[t] = op, !.pc[t] = "done"]
    /\ UNCHANGED <<created, streamVars>>

\* a thread calls next()/prev(): the cursor property is read without the
\* lock and the argument of select() is computed from it
RaceNextRead(t) ==
    /\ race.pc[t] = "idle"
    /\ \E op \in RaceOps(Len(race.init.playlist), t) :
          /\ op.name \in {"next", "prev"}
          /\ player' = CursorRead(player)
          /\ race' = [race EXCEPT !.op[t] = op, !.pc[t] = "select",
                         !.index[t] = IF op.name = "next"
                                      THEN NextIndex(player, op.a)
                                      ELSE PrevIndex(player, op.a)]
    /\ UNCHANGED <<created, streamVars>>

\* the select() call of next()/prev(), under the lock
RaceNextSelect(t) ==
    /\ race.pc[t] = "select"
    /\ player' = Select(player, race.index[t])
    /\ race' = [race EXCEPT !.pc[t] = "done"]
    /\ UNCHANGED <<created, streamVars>>

NextRace ==
    \/ \E t \in Threads : RaceLockedOp(t)
    \/ \E t \in Threads : RaceNextRead(t)
    \/ \E t \in Threads : RaceNextSelect(t)

SpecRace == InitRace /\ [][NextRace]_vars

\* what a caller can observe of the playlist state
Outcome(p) == <<p.playlist, CursorValue(p)>>

RaceDone == race.active /\ \A t \in Threads : race.pc[t] = "done"

(***************************************************************************)
(* C2: when playlist operations are called concurrently from two threads,  *)
(* the resulting playlist and cursor equal the result of running the same  *)
(* two operations one at a time in one of the two sequential orders.       *)
(***************************************************************************)
C2_Serializable ==
    RaceDone =>
        \/ Outcome(player) = Outcome(ApplyOp(ApplyOp(race.init, race.op[1]), race.op[2]))
        \/ Outcome(player) = Outcome(ApplyOp(ApplyOp(race.init, race.op[2]), race.op[1]))

(***************************************************************************)
(* The broadcast: the broadcaster thread (AVStreamer.run pulling frames    *)
(* from AVFrameGenerator.generate_frames) and the command thread.          *)
(***************************************************************************)
RECURSIVE AppendAll(_, _, _)
\* assets k+1 .. n appended one after the other
AppendAll(p, k, n) ==
    IF k >= n THEN p ELSE AppendAll(Append_(p, k + 1), k + 1, n)

\* the broadcaster starts; cmd_play may have run any number of times before
InitStream ==
    /\ \E vm \in StreamVisualMode, cm \in StreamCursorMode, n \in 0..MaxAssets :
          /\ player = AppendAll(NewPlayer(vm, cm), 0, n)
          /\ created = n
    /\ race = NoRace
    /\ StreamAtRest

\* the counters stay within the part of the broadcast the model explores
WithinCaps(c, max_video, max_audio) ==
    /\ c.offset_video_pts <= max_video
    /\ c.offset_audio_pts <= max_audio * AUDIO_FRAME_SIZE

\* the elements of a playlist
Elems(lst) == {lst[k] : k \in 1..Len(lst)}

\* a generate_frames whose loop never tests is_running
GenerateFramesForever ==
    /\ gen.pc = "generate_frames"
    /\ player' = CursorRead(player)
    /\ IF GetCurrent(player, 0) # NoAsset
       THEN gen' = [gen EXCEPT !.pc = "open", !.media = GetCurrent(player, 0)]
       ELSE gen' = [gen EXCEPT !.pc = "placeholder", !.caller = "idle",
                               !.prev_media = NoAsset]
    /\ UNCHANGED <<created, context, shutdown_event, frame, cmd, hist, race, pacer>>

\* generate_frames: while self.is_running: if track := get_current(): ...
GenerateFrames ==
    /\ gen.pc = "generate_frames"
    /\ IF shutdown_event
       THEN /\ gen' = [NewGen EXCEPT !.pc = "run_exit"]
            /\ UNCHANGED player
       ELSE /\ player' = CursorRead(player)
            /\ IF GetCurrent(player, 0) # NoAsset
               THEN gen' = [gen EXCEPT !.pc = "open", !.media = GetCurrent(player, 0)]
               ELSE gen' = [gen EXCEPT !.pc = "placeholder", !.caller = "idle",
                                       !.prev_media = NoAsset]
    /\ UNCHANGED <<created, context, shutdown_event, frame, cmd, hist, race, pacer>>

\* _process_track: the thumbnail, av.open, the graphs of the streams found
OpenTrack ==
    /\ gen.pc = "open"
    /\ \E ok \in BOOLEAN, exists \in BOOLEAN, has_video \in BOOLEAN, has_audio \in BOOLEAN :
          IF ok
          THEN /\ gen' = [gen EXCEPT !.pc = "decode", !.has_video = has_video,
                                     !.has_audio = has_audio, !.thumb_cached = ~exists]
               /\ context' = CreateGraphs(context, has_video, has_audio)
          ELSE /\ gen' = [gen EXCEPT !.pc = "flush", !.error = TRUE,
                                     !.thumb_cached = ~exists,
                                     !.prev_media = NoAsset]
               /\ UNCHANGED context
    /\ hist' = [hist EXCEPT !.expect = NoAsset]
    /\ UNCHANGED <<player, created, shutdown_event, frame, cmd, race, pacer>>

\* the kinds of frame the opened container can still deliver
FrameKinds ==
    (IF gen.has_video THEN {"video"} ELSE {}) \cup (IF gen.has_audio THEN {"audio"} ELSE {})

\* the decode loop: the next decoded frame, or the end of the container
Decode ==
    /\ gen.pc = "decode"
    /\ \E k \in {"end"} \cup FrameKinds :
          IF k = "end"
          THEN /\ gen' = [gen EXCEPT !.pc = "flush", !.prev_media = NoAsset]
               /\ UNCHANGED <<player, frame>>
          ELSE IF shutdown_event
          THEN /\ gen' = [gen EXCEPT !.pc = "flush", !.prev_media = NoAsset]
               /\ UNCHANGED <<player, frame>>
          ELSE /\ player' = CursorRead(player)
               /\ IF GetCurrent(player, 0) # gen.media
                  THEN gen' = [gen EXCEPT !.pc = "flush", !.prev_media = NoAsset]
                       /\ UNCHANGED frame
                  ELSE IF k = "video"
                  THEN gen' = [gen EXCEPT !.pc = "pause"] /\ UNCHANGED frame
                  ELSE /\ gen' = [gen EXCEPT !.pc = "run_check", !.resume = "decode",
                                            !.prev_media = NoAsset]
                       /\ frame' = DecodedFrame("audio", gen.media)
    /\ hist' = IF gen'.pc = "run_check" /\ ~player.is_playing
               THEN [hist EXCEPT !.paused_emit = TRUE]
               ELSE hist
    /\ UNCHANGED <<created, context, shutdown_event, cmd, race, pacer>>

\* _generate_pause_frames: while self.is_paused and self.is_running
Pause ==
    /\ gen.pc = "pause"
    /\ IF ~player.is_playing /\ ~shutdown_event
       THEN gen' = [gen EXCEPT !.pc = "placeholder", !.caller = "pause"]
       ELSE gen' = [gen EXCEPT !.pc = "visual"]
    /\ UNCHANGED <<player, created, context, shutdown_event, frame, cmd, hist, race, pacer>>

\* where _generate_placeholder_frames returns to
PlaceholderReturn == IF gen.caller = "pause" THEN "pause" ELSE "generate_frames"

\* a keep-alive that feeds the lane that is ahead
PlaceholderPickAhead(c, video, audio) ==
    IF VideoDuration(c) >= AudioDuration(c) THEN video ELSE audio

\* the frame the keep-alive picks: video when video_duration <= audio_duration
PlaceholderPick(c, video, audio) ==
    IF VideoDuration(c) <= AudioDuration(c) THEN video ELSE audio

\* _generate_placeholder_frames: while self.is_running: yield video or audio
Placeholder ==
    /\ gen.pc = "placeholder"
    /\ IF shutdown_event
       THEN /\ gen' = [gen EXCEPT !.pc = PlaceholderReturn, !.caller = NewGen.caller]
            /\ UNCHANGED frame
       ELSE /\ gen' = [gen EXCEPT !.pc = "run_check", !.resume = "placeholder_sync",
                                    !.prev_media = NoAsset]
            /\ frame' = PlaceholderPick(context,
                            IF gen.caller = "pause"
                            THEN DecodedFrame("video", gen.media)
                            ELSE PlaceholderFrame,
                            SilenceFrame)
    /\ UNCHANGED <<player, created, context, shutdown_event, cmd, hist, race, pacer>>

\* a keep-alive without the break: it yields until the latch is set
PlaceholderNoBreak ==
    /\ gen.pc = "placeholder_sync"
    /\ gen' = [gen EXCEPT !.pc = "placeholder"]
    /\ UNCHANGED <<player, created, context, shutdown_event, frame, cmd, hist, race, pacer>>

\* _generate_placeholder_frames: if ctx.is_audio_video_synced: break
PlaceholderSync ==
    /\ gen.pc = "placeholder_sync"
    /\ IF IsAudioVideoSynced(context)
       THEN gen' = [gen EXCEPT !.pc = PlaceholderReturn, !.caller = NewGen.caller]
       ELSE gen' = [gen EXCEPT !.pc = "placeholder"]
    /\ UNCHANGED <<player, created, context, shutdown_event, frame, cmd, hist, race, pacer>>

\* a _process_video_frame that yields the decoded frame in every mode
VisualFrameContentOnly(mode, media, thumb_cached) == DecodedFrame("video", media)

\* the frame _process_video_frame yields for a decoded video frame
VisualFrame(mode, media, thumb_cached) ==
    CASE mode = VIDEO_PLACEHOLDER -> PlaceholderFrame
      [] mode = VIDEO_THUMBNAIL ->
            IF thumb_cached THEN PlaceholderFrame ELSE ThumbnailFrame(media)
      [] mode = VIDEO_CONTENT -> DecodedFrame("video", media)

\* _process_video_frame: match self.state.player.visual_mode
Visual ==
    /\ gen.pc = "visual"
    /\ frame' = VisualFrame(player.visual_mode, gen.media, gen.thumb_cached)
    /\ gen' = [gen EXCEPT !.pc = "run_check", !.resume = "decode",
                           !.prev_media = NoAsset]
    /\ hist' = IF ~player.is_playing /\ frame'.id = "decoded"
               THEN [hist EXCEPT !.paused_emit = TRUE]
               ELSE hist
    /\ UNCHANGED <<player, created, context, shutdown_event, cmd, race, pacer>>

\* finally: self.state.context.flush()
Flush(max_video, max_audio) ==
    /\ gen.pc = "flush"
    /\ \E outs \in AudioFilterOut(TrackSamples), n \in VideoFilterOut :
          /\ context' = FlushGraphs(context, outs, n)
          /\ shutdown_event \/ WithinCaps(context', max_video, max_audio)
    /\ gen' = [gen EXCEPT !.pc = "next_read"]
    /\ UNCHANGED <<player, created, shutdown_event, frame, cmd, hist, race, pacer>>

\* finally: self.state.player.next(): (self.cursor or 0) + step, no lock held
NextRead ==
    /\ gen.pc = "next_read"
    /\ player' = CursorRead(player)
    /\ gen' = [gen EXCEPT !.pc = "next_select", !.index = NextIndex(player, 1)]
    /\ UNCHANGED <<created, context, shutdown_event, frame, cmd, hist, race, pacer>>

\* finally: self.state.player.next(): select(index), then out of
\* _process_track
NextSelect ==
    /\ gen.pc = "next_select"
    /\ player' = Select(player, gen.index)
    /\ gen' = [NewGen EXCEPT !.pc = IF gen.closing \/ gen.error \/ gen.failed
                                    THEN "run_exit"
                                    ELSE "generate_frames",
                             !.prev_media = gen.media,
                             !.error = gen.error, !.closing = gen.closing,
                             !.failed = gen.failed]
    /\ UNCHANGED <<created, context, shutdown_event, frame, cmd, hist, race, pacer>>

\* a run loop that encodes every frame it pulls, without the is_running test
RunCheckNoBreak ==
    /\ gen.pc = "run_check"
    /\ gen' = [gen EXCEPT !.pc = "run_encode"]
    /\ UNCHANGED <<player, created, context, shutdown_event, frame, cmd, hist, race, pacer>>

\* _run_streaming: if not self.is_running: break.  Leaving the loop drops
\* the generator, and a generator dropped while suspended in _process_track
\* runs its finally block
RunCheck ==
    /\ gen.pc = "run_check"
    /\ IF shutdown_event
       THEN /\ frame' = NoFrame
            /\ IF gen.media # NoAsset
               THEN gen' = [gen EXCEPT !.pc = "flush", !.closing = TRUE,
                                       !.resume = NewGen.resume, !.caller = NewGen.caller]
               ELSE gen' = [NewGen EXCEPT !.pc = "run_exit"]
       ELSE /\ gen' = [gen EXCEPT !.pc = "run_encode"]
            /\ UNCHANGED frame
    /\ UNCHANGED <<player, created, context, shutdown_event, cmd, hist, race, pacer>>

\* _run_streaming: encode_audio / encode_video(frame, apply_filters=not
\* is_cached); then self.wait(...) if delay > MIN_SYNC_DELAY, else back
\* into the generator
EncodeStep(max_video, max_audio) ==
    /\ gen.pc = "run_encode"
    /\ \E outs \in AudioFilterOut(TrackSamples), n \in VideoFilterOut :
          /\ context' =
                IF frame.kind = "audio"
                THEN EncodeAudio(context, TRUE, frame.samples,
                                 ~IsCached(frame), outs)
                ELSE EncodeVideo(context, TRUE, ~IsCached(frame), n)
          /\ shutdown_event \/ WithinCaps(context', max_video, max_audio)
    /\ \E wait \in BOOLEAN :
          gen' = IF wait THEN [gen EXCEPT !.pc = "run_wait"]
                 ELSE [gen EXCEPT !.pc = gen.resume, !.resume = NewGen.resume]
    /\ frame' = NoFrame
    /\ UNCHANGED <<player, created, shutdown_event, cmd, hist, race>>

\* the encode step with the wall clock left open: it waits or it does not
RunEncode(max_video, max_audio) ==
    EncodeStep(max_video, max_audio) /\ UNCHANGED pacer

\* the wall-clock time that can pass between two readings of the clock:
\* none, what leaves a video frame's lead just above or exactly at
\* MIN_SYNC_DELAY, and a stall of MaxLagFrames video frames
EncodeTimes ==
    {0, VideoTick - MIN_SYNC_DELAY - 1, VideoTick - MIN_SYNC_DELAY,
     MaxLagFrames * VideoTick}

\* the encode step with the clock: elapsed = time.time() - start_time;
\* delay = float(duration) - elapsed; if delay > MIN_SYNC_DELAY:
\* self.wait(min(delay, MAX_SYNC_DELAY))
RunEncodePaced(max_video, max_audio) ==
    /\ EncodeStep(max_video, max_audio)
    /\ \E dt \in EncodeTimes :
          LET elapsed == pacer.elapsed + dt
              delay == Duration(context') - elapsed
          IN  /\ delay >= -(MaxLagFrames * VideoTick)
              /\ pacer' = [elapsed |-> elapsed, wait |-> PacerWait(delay)]
              /\ (gen'.pc = "run_wait") = (PacerWait(delay) > 0)

\* _run_streaming: encode_audio / encode_video raises at the encode or mux
\* of the last frame it stamped.  The exception unwinds the for loop, which
\* drops the generator (its finally block runs if it is suspended in
\* _process_track), and reaches the except clauses of run()
RunEncodeFails(max_video, max_audio) ==
    /\ gen.pc = "run_encode"
    /\ \E outs \in AudioFilterOut(TrackSamples), n \in VideoFilterOut :
          /\ context' =
                IF frame.kind = "audio"
                THEN EncodeAudio(context, TRUE, frame.samples,
                                 ~IsCached(frame), outs)
                ELSE EncodeVideo(context, TRUE, ~IsCached(frame), n)
          /\ context' # context
          /\ shutdown_event \/ WithinCaps(context', max_video, max_audio)
    /\ IF gen.media # NoAsset
       THEN gen' = [gen EXCEPT !.pc = "flush", !.failed = TRUE,
                               !.resume = NewGen.resume, !.caller = NewGen.caller]
       ELSE gen' = [NewGen EXCEPT !.pc = "run_exit", !.failed = TRUE]
    /\ frame' = NoFrame
    /\ UNCHANGED <<player, created, shutdown_event, cmd, hist, race, pacer>>

\* wait(): self._shutdown_event.wait(delay) returns when the delay has
\* elapsed or the latch is set; the run loop pulls the next frame
WaitStep ==
    /\ gen.pc = "run_wait"
    /\ gen' = [gen EXCEPT !.pc = gen.resume, !.resume = NewGen.resume]
    /\ UNCHANGED <<player, created, context, shutdown_event, frame, cmd, hist, race>>

\* the wait with the wall clock left open
RunWait == WaitStep /\ UNCHANGED pacer

\* the wait with the clock: the delay asked for has passed when it returns,
\* unless the latch is set, which makes it return at once
RunWaitPaced ==
    /\ WaitStep
    /\ pacer' = [elapsed |-> pacer.elapsed + (IF shutdown_event THEN 0 ELSE pacer.wait),
                 wait |-> 0]

\* run(): the with block of the output container is left
RunExit ==
    /\ gen.pc = "run_exit"
    /\ context' = [context EXCEPT !.container_open = FALSE]
    /\ gen' = [gen EXCEPT !.pc = "run_finally"]
    /\ UNCHANGED <<player, created, shutdown_event, frame, cmd, hist, race, pacer>>

\* run(): finally: set the latch if unset, close the context.  close()
\* encodes and muxes; called on a context whose container has been closed
\* it returns or raises, and what it raises leaves run()
RunFinally ==
    /\ gen.pc = "run_finally"
    /\ shutdown_event' = TRUE
    /\ \E outs \in AudioFilterOut(TrackSamples), n \in VideoFilterOut :
          context' = Close(context, outs, n)
    /\ \E raises \in BOOLEAN :
          /\ raises => ~context.container_open
          /\ gen' = [gen EXCEPT !.pc = "done", !.raised = raises]
    /\ UNCHANGED <<player, created, frame, cmd, hist, race, pacer>>

(***************************************************************************)
(* The command thread: the bot's handlers and AVStreamer.stop().           *)
(***************************************************************************)
CmdReady == cmd.pc = "idle" /\ cmd.count < MaxCommands

\* the producer is in the decode loop of the track it opened
InDecodeLoop ==
    /\ gen.media # NoAsset
    /\ gen.pc \in {"decode", "pause", "visual", "placeholder", "placeholder_sync",
                   "run_check", "run_encode", "run_wait"}
    /\ ~gen.closing
    /\ ~shutdown_event

\* the producer is in the decode loop of the track that is current
Playing(p) == InDecodeLoop /\ GetCurrent(p, 0) = gen.media

\* the asset right after the current one (NoAsset when there is none)
Following(p) ==
    IF CursorValue(p) # None /\ CursorValue(p) + 1 < Len(p.playlist)
    THEN p.playlist[CursorValue(p) + 2]
    ELSE NoAsset

\* cmd_play: player.append(MediaAssetPaths(...))
CmdPlay ==
    /\ CmdReady
    /\ created < MaxAssets
    /\ created' = created + 1
    /\ player' = Append_(player, created + 1)
    /\ cmd' = [cmd EXCEPT !.count = cmd.count + 1]
    /\ UNCHANGED <<context, shutdown_event, gen, frame, hist, race, pacer>>

\* cmd_skip: if player.cursor is None: return; player.next() up to the
\* call of select()
CmdSkipRead ==
    /\ CmdReady
    /\ player' = CursorRead(player)
    /\ IF CursorValue(player) = None
       THEN cmd' = [cmd EXCEPT !.count = cmd.count + 1]
       ELSE cmd' = [cmd EXCEPT !.count = cmd.count + 1, !.pc = "skip_select",
                               !.index = NextIndex(player, 1)]
    /\ hist' = [hist EXCEPT !.expect = IF Playing(player) THEN Following(player)
                                       ELSE NoAsset]
    /\ UNCHANGED <<created, context, shutdown_event, gen, frame, race, pacer>>

\* cmd_skip: the select() of player.next(), then player.cursor is logged
CmdSkipSelect ==
    /\ cmd.pc = "skip_select"
    /\ player' = CursorRead(Select(player, cmd.index))
    /\ cmd' = [cmd EXCEPT !.pc = "idle"]
    /\ hist' = [hist EXCEPT !.expect = IF InDecodeLoop THEN hist.expect ELSE NoAsset]
    /\ UNCHANGED <<created, context, shutdown_event, gen, frame, race, pacer>>

\* cmd_pause: player.pause() unless paused already
CmdPause ==
    /\ CmdReady
    /\ player.is_playing
    /\ player' = SetPlaying(player, FALSE)
    /\ cmd' = [cmd EXCEPT !.count = cmd.count + 1]
    /\ hist' = [hist EXCEPT !.paused_emit = FALSE]
    /\ UNCHANGED <<created, context, shutdown_event, gen, frame, race, pacer>>

\* cmd_resume: player.resume() unless playing already
CmdResume ==
    /\ CmdReady
    /\ ~player.is_playing
    /\ player' = SetPlaying(player, TRUE)
    /\ cmd' = [cmd EXCEPT !.count = cmd.count + 1]
    /\ hist' = [hist EXCEPT !.paused_emit = FALSE]
    /\ UNCHANGED <<created, context, shutdown_event, gen, frame, race, pacer>>

\* cmd_clear_playlist: player.clear()
CmdClearPlaylist ==
    /\ CmdReady
    /\ player' = Clear(player)
    /\ cmd' = [cmd EXCEPT !.count = cmd.count + 1]
    /\ hist' = [hist EXCEPT !.expect = NoAsset]
    /\ UNCHANGED <<created, context, shutdown_event, gen, frame, race, pacer>>

\* cmd_playlist / cmd_now_playing: player.cursor is read
CmdPlaylist ==
    /\ CmdReady
    /\ player' = CursorRead(player)
    /\ cmd' = [cmd EXCEPT !.count = cmd.count + 1]
    /\ UNCHANGED <<created, context, shutdown_event, gen, frame, hist, race, pacer>>

\* cmd_set_visual_mode
CmdSetVisualMode ==
    /\ CmdReady
    /\ \E mode \in StreamVisualMode \ {player.visual_mode} :
          player' = SetVisualMode(player, mode)
    /\ cmd' = [cmd EXCEPT !.count = cmd.count + 1]
    /\ UNCHANGED <<created, context, shutdown_event, gen, frame, hist, race, pacer>>

\* cmd_set_cursor_mode
CmdSetCursorMode ==
    /\ CmdReady
    /\ \E mode \in StreamCursorMode \ {player.cursor_mode} :
          player' = SetCursorMode(player, mode)
    /\ cmd' = [cmd EXCEPT !.count = cmd.count + 1]
    /\ hist' = [hist EXCEPT !.expect = NoAsset]
    /\ UNCHANGED <<created, context, shutdown_event, gen, frame, race, pacer>>

\* AVStreamer.stop()
Stop ==
    /\ cmd.count < MaxCommands
    /\ ~shutdown_event
    /\ gen.pc # "done"
    /\ shutdown_event' = TRUE
    /\ cmd' = [cmd EXCEPT !.count = cmd.count + 1]
    /\ UNCHANGED <<player, created, context, gen, frame, hist, race, pacer>>

\* the broadcaster thread but for the encode step and the wait
Broadcaster(max_video, max_audio) ==
    \/ GenerateFrames
    \/ OpenTrack
    \/ Decode
    \/ Pause
    \/ Placeholder
    \/ PlaceholderSync
    \/ Visual
    \/ Flush(max_video, max_audio)
    \/ NextRead
    \/ NextSelect
    \/ RunCheck
    \/ RunExit
    \/ RunFinally

Producer(max_video, max_audio) ==
    \/ Broadcaster(max_video, max_audio)
    \/ RunEncode(max_video, max_audio)
    \/ RunWait


Commands ==
    \/ CmdPlay
    \/ CmdSkipRead
    \/ CmdSkipSelect
    \/ CmdPause
    \/ CmdResume
    \/ CmdClearPlaylist
    \/ CmdPlaylist
    \/ CmdSetVisualMode
    \/ CmdSetCursorMode
    \/ Stop

Next == Producer(MaxVideoPts, MaxAudioFrames) \/ Commands

Spec == InitStream /\ [][Next]_vars

(***************************************************************************)
(* C3: if a command calls next() while the producer plays track A and      *)
(* track B immediately follows A in the playlist, the next track the       *)
(* producer opens is B.  hist.expect is B from a next() that a command     *)
(* called and completed while the producer was in the decode loop of A,    *)
(* until the producer opens a track.                                       *)
(***************************************************************************)
C3_SkipOpensFollowing ==
    [][(gen.pc = "generate_frames" /\ gen'.pc = "open" /\ hist.expect # NoAsset)
          => gen'.media = hist.expect]_vars

(***************************************************************************)
(* C4: the cursor policy is applied once per played track: after a command *)
(* called next() while track A played and track B followed it, the next()  *)
(* of the producer does not remove B from the playlist, since the producer *)
(* has not opened B yet (hist.expect is B until the producer opens a       *)
(* track).                                                                 *)
(***************************************************************************)
C4_FollowingNotRemovedUnopened ==
    [][(gen.pc = "next_select" /\ gen'.pc # gen.pc /\ hist.expect # NoAsset)
          => hist.expect \in Elems(player'.playlist)]_vars

\* the producer's next() runs after the track at the last index has played
\* to its end
LastTrackFinished ==
    /\ gen.pc = "next_select"
    /\ ~gen.error /\ ~gen.closing /\ ~shutdown_event
    /\ CursorValue(player) = Len(player.playlist) - 1
    /\ GetCurrent(player, 0) = gen.media
    /\ gen.index = Len(player.playlist)

(***************************************************************************)
(* C5: under LOOP_PLAYLIST with two or more tracks that no command         *)
(* mutates, when the track at the last index finishes the producer's       *)
(* next() moves the cursor to index 0.                                     *)
(***************************************************************************)
C5_LoopWrapsToStart ==
    [][(LastTrackFinished /\ gen'.pc # gen.pc /\ cmd.count = 0
          /\ player.cursor_mode = LOOP_PLAYLIST /\ Len(player.playlist) >= 2)
          => CursorValue(player') = 0]_vars

(***************************************************************************)
(* C6: under PLAY_AND_STOP, when the track at the last index finishes      *)
(* playing the cursor becomes none (playback stops, the last track is not  *)
(* opened again).                                                          *)
(***************************************************************************)
C6_StopAtEnd ==
    [][(LastTrackFinished /\ gen'.pc # gen.pc /\ cmd.count = 0
          /\ player.cursor_mode = PLAY_AND_STOP)
          => CursorValue(player') = None]_vars

(***************************************************************************)
(* C8: when a track ends and another track is current, the first frame of  *)
(* the next track is emitted only when the audio and the video duration    *)
(* differ by at most SYNC_TOLERANCE.  gen.prev_media is the track that     *)
(* ended, until the producer yields its next frame.                        *)
(***************************************************************************)
C8_SyncedBetweenTracks ==
    [][(gen.prev_media # NoAsset /\ gen.media # gen.prev_media
          /\ gen.pc \in {"decode", "visual"}
          /\ gen'.pc = "run_check")
          => IsAudioVideoSynced(context)]_vars

(***************************************************************************)
(* C9: while a track without a video stream (or without an audio stream)   *)
(* plays, the lane that has input never runs ahead of the missing lane by  *)
(* more than SYNC_TOLERANCE when the track's next frame is emitted.        *)
(***************************************************************************)
C9_MissingLaneFilled ==
    (gen.pc = "run_check" /\ gen.resume = "decode")
    => /\ (frame.kind = "audio" /\ ~gen.has_video)
             => AudioDuration(context) - VideoDuration(context) <= SYNC_TOLERANCE
       /\ (frame.kind = "video" /\ ~gen.has_audio)
             => VideoDuration(context) - AudioDuration(context) <= SYNC_TOLERANCE

(***************************************************************************)
(* The broadcast of an empty playlist that no command touches: the         *)
(* producer idles on placeholder frames.                                   *)
(***************************************************************************)
InitIdle ==
    /\ \E vm \in StreamVisualMode, cm \in StreamCursorMode : player = NewPlayer(vm, cm)
    /\ created = 0
    /\ race = NoRace
    /\ StreamAtRest

NextIdle ==
    \/ GenerateFrames
    \/ Placeholder
    \/ PlaceholderSync
    \/ RunCheck
    \/ RunEncode(IdleMaxVideoPts, IdleMaxAudioFrames)
    \/ RunWait

SpecIdle == InitIdle /\ [][NextIdle]_vars

(***************************************************************************)
(* The AVContext alone, called in any order by any caller.                 *)
(***************************************************************************)
InitContext ==
    /\ player = NewPlayer(VIDEO_CONTENT, PLAY_AND_DELETE)
    /\ created = 0
    /\ race = NoRace
    /\ StreamAtRest

\* create_graph(stream) for a video or an audio stream
CtxCreateGraph ==
    /\ \E has_video \in BOOLEAN :
          context' = CreateGraphs(context, has_video, ~has_video)
    /\ UNCHANGED <<player, created, shutdown_event, gen, frame, cmd, hist, race, pacer>>

\* encode_video(frame or None, apply_filters)
CtxEncodeVideo ==
    /\ \E is_frame \in BOOLEAN, apply_filters \in BOOLEAN, n \in VideoFilterOut :
          context' = EncodeVideo(context, is_frame, apply_filters, n)
    /\ WithinCaps(context', MaxVideoPts, MaxAudioFrames)
    /\ UNCHANGED <<player, created, shutdown_event, gen, frame, cmd, hist, race, pacer>>

\* encode_audio(frame or None, apply_filters)
CtxEncodeAudio ==
    /\ \E is_frame \in BOOLEAN, apply_filters \in BOOLEAN, samples \in AudioSamples,
          outs \in AudioFilterOut(AudioSamples) :
          context' = EncodeAudio(context, is_frame, samples, apply_filters, outs)
    /\ WithinCaps(context', MaxVideoPts, MaxAudioFrames)
    /\ UNCHANGED <<player, created, shutdown_event, gen, frame, cmd, hist, race, pacer>>

\* flush()
CtxFlush ==
    /\ \E outs \in AudioFilterOut(AudioSamples), n \in VideoFilterOut :
          context' = FlushGraphs(context, outs, n)
    /\ WithinCaps(context', MaxVideoPts, MaxAudioFrames)
    /\ UNCHANGED <<player, created, shutdown_event, gen, frame, cmd, hist, race, pacer>>

NextContext ==
    \/ CtxCreateGraph
    \/ CtxEncodeVideo
    \/ CtxEncodeAudio
    \/ CtxFlush

SpecContext == InitContext /\ [][NextContext]_vars

StrictlyIncreasing(seq) == \A i \in 1..(Len(seq) - 1) : seq[i] < seq[i + 1]

(***************************************************************************)
(* C1: for any sequence of encode_video / encode_audio calls (filtered or  *)
(* not, frame or None) interleaved with create_graph and flush, the PTS    *)
(* stamped on each video frame handed to the video encoder is strictly     *)
(* greater than the PTS of the video frame before it, and likewise for the *)
(* audio frames.                                                           *)
(***************************************************************************)
C1_PtsStrictlyIncreasing ==
    /\ StrictlyIncreasing(context.video_pts)
    /\ StrictlyIncreasing(context.audio_pts)

\* several frames of each stream were stamped, filtered ones among them,
\* and the graphs were released again
C1_Witness ==
    /\ Len(context.video_pts) >= 3
    /\ Len(context.audio_pts) >= 3
    /\ context.offset_audio_pts % AUDIO_FRAME_SIZE # 0
    /\ ~context.video_graph /\ ~context.audio_graph

(***************************************************************************)
(* C7: with an empty playlist, from both PTS counters at 0, after every    *)
(* placeholder frame that was emitted and encoded the audio and the video  *)
(* duration differ by at most SYNC_TOLERANCE (50 ms).                      *)
(***************************************************************************)
C7_IdleGapWithinTolerance == AVGap(context) <= SYNC_TOLERANCE

\* the idle broadcast has run through a whole period of the two frame
\* lengths: 640 video frames and 1001 silent frames last equally long
C7_Witness ==
    /\ gen.pc = "placeholder_sync"
    /\ context.offset_video_pts = 640
    /\ context.offset_audio_pts = 1001 * AUDIO_FRAME_SIZE

(***************************************************************************)
(* Playlist operations under a cursor policy that never changes: no clear  *)
(* and no cursor_mode assignment.                                          *)
(***************************************************************************)
NextPolicy ==
    \/ DoAppend
    \/ DoRemove
    \/ DoSelect
    \/ DoMove
    \/ DoNext
    \/ DoPrev

SpecPolicy == InitPlayer /\ [][NextPolicy]_vars

(***************************************************************************)
(* C11: while the cursor policy is LOOP_PLAYLIST from the start, in every  *)
(* state reachable by append, remove, select, move, next and prev, a       *)
(* non-empty playlist implies that the cursor is not none.                 *)
(***************************************************************************)
C11_LoopCursorNotNone ==
    (player.cursor_mode = LOOP_PLAYLIST /\ Len(player.playlist) > 0)
        => CursorValue(player) # None

(***************************************************************************)
(* C12: while the cursor policy is PLAY_AND_DELETE from the start, an      *)
(* asset that is current and is still in the playlist after an operation   *)
(* is still the current asset (assets are never appended twice, so this is *)
(* the same as: every asset that has been current is current now or is no *)
(* longer in the playlist).                                                *)
(***************************************************************************)
C12_CurrentStaysOrLeaves ==
    [][(player.cursor_mode = PLAY_AND_DELETE
          /\ GetCurrent(player, 0) # NoAsset
          /\ GetCurrent(player, 0) \in Elems(player'.playlist))
          => GetCurrent(player', 0) = GetCurrent(player, 0)]_vars

(***************************************************************************)
(* C13: remove(i) with 0 <= i < cursor deletes element i and decrements    *)
(* the cursor by one, so that the same asset stays current, for every      *)
(* cursor position (the last index included).                              *)
(***************************************************************************)
C13_RemoveBeforeCursor ==
    \A i \in 0..(CursorValue(player) - 1) :
        LET q == Remove(player, i) IN
        /\ q.playlist = ListDel(player.playlist, i)
        /\ CursorValue(q) = CursorValue(player) - 1
        /\ GetCurrent(q, 0) = GetCurrent(player, 0)

(***************************************************************************)
(* C14: remove(i) with i equal to the cursor deletes the current element   *)
(* and sets the cursor to min(cursor, new_size - 1), or to none when the   *)
(* playlist became empty.                                                  *)
(***************************************************************************)
C14_RemoveAtCursor ==
    CursorValue(player) # None =>
        LET c == CursorValue(player)
            q == Remove(player, c)
        IN  /\ q.playlist = ListDel(player.playlist, c)
            /\ CursorValue(q) = IF Len(q.playlist) = 0 THEN None
                                ELSE Min(c, Len(q.playlist) - 1)

(***************************************************************************)
(* C15: under PLAY_AND_DELETE with a current track at index c, select(i)   *)
(* for every i # c with 0 <= i < size removes the old current track and    *)
(* makes the asset that was at index i the current asset (the last index   *)
(* included).                                                              *)
(***************************************************************************)
C15_SelectUnderDelete ==
    (player.cursor_mode = PLAY_AND_DELETE /\ CursorValue(player) # None) =>
        \A i \in (0..(Len(player.playlist) - 1)) \ {CursorValue(player)} :
            LET q == Select(player, i) IN
            /\ q.playlist = ListDel(player.playlist, CursorValue(player))
            /\ GetCurrent(q, 0) = player.playlist[i + 1]

\* the indices move() accepts for playlist lst
InRange(lst, index) == 0 <= index /\ index < Len(lst)

(***************************************************************************)
(* C17: move(from, to) with both indices in range and a non-none cursor    *)
(* relocates exactly the element at from to index to, keeps the relative   *)
(* order of all other elements and leaves the same asset current;          *)
(* move(i, i) changes neither the playlist nor the cursor; with an index   *)
(* out of range or a none cursor nothing changes.                          *)
(***************************************************************************)
C17_Move ==
    \A from_index \in IndexArgs, to_index \in IndexArgs :
        LET q == Move(player, from_index, to_index)
            lst == player.playlist
        IN  /\ ~q.raised
            /\ IF InRange(lst, from_index) /\ InRange(lst, to_index)
                  /\ CursorValue(player) # None
               THEN /\ Len(q.playlist) = Len(lst)
                    /\ q.playlist[to_index + 1] = lst[from_index + 1]
                    /\ ListDel(q.playlist, to_index) = ListDel(lst, from_index)
                    /\ GetCurrent(q, 0) = GetCurrent(player, 0)
                    /\ from_index = to_index =>
                          /\ q.playlist = lst
                          /\ CursorValue(q) = CursorValue(player)
               ELSE /\ q.playlist = lst
                    /\ CursorValue(q) = CursorValue(player)

\* an element was moved (append alone keeps the assets in the order of
\* their creation) and the cursor stands between other elements
C17_Witness ==
    /\ Len(player.playlist) = 3
    /\ CursorValue(player) = 1
    /\ \E k \in 1..2 : player.playlist[k] > player.playlist[k + 1]

(***************************************************************************)
(* C18: append(m) adds m at the end of the playlist and leaves every other *)
(* element in place; if the cursor was none it becomes 0, otherwise the    *)
(* cursor and the current asset are unchanged.                             *)
(***************************************************************************)
C18_Append ==
    LET m == created + 1
        q == Append_(player, m)
    IN  /\ q.playlist = Append(player.playlist, m)
        /\ IF CursorValue(player) = None
           THEN CursorValue(q) = 0
           ELSE /\ CursorValue(q) = CursorValue(player)
                /\ GetCurrent(q, 0) = GetCurrent(player, 0)

(***************************************************************************)
(* The broadcast when no command but stop() runs.  The playlist, the       *)
(* cursor and is_playing are what earlier commands left behind.            *)
(***************************************************************************)
InitSolo ==
    /\ \E vm \in StreamVisualMode, cm \in StreamCursorMode, n \in 0..MaxAssets,
          playing \in BOOLEAN :
         \E c \in (IF n = 0 THEN {None} ELSE 0..(n - 1)) :
            /\ player = [AppendAll(NewPlayer(vm, cm), 0, n) EXCEPT
                            !.cursor = c, !.is_playing = playing]
            /\ created = n
    /\ race = NoRace
    /\ StreamAtRest

NextSolo == Producer(SoloMaxVideoPts, SoloMaxAudioFrames) \/ Stop

SpecSolo == InitSolo /\ [][NextSolo]_vars

\* the broadcaster thread is scheduled as long as it can take a step
SpecSoloFair == SpecSolo /\ WF_vars(Producer(SoloMaxVideoPts, SoloMaxAudioFrames))

(***************************************************************************)
(* C16: under PLAY_AND_DELETE, when the current track at index c ends and  *)
(* no command runs concurrently, the producer's next() removes exactly     *)
(* that track from the playlist and the track that was at index c + 1      *)
(* becomes current; if no track followed it, the cursor becomes none and   *)
(* the producer goes on with the placeholder keep-alive.                   *)
(***************************************************************************)
C16_DeleteAdvances ==
    [][/\ (gen.pc = "next_select" /\ gen'.pc # gen.pc
             /\ player.cursor_mode = PLAY_AND_DELETE
             /\ gen.media # NoAsset /\ GetCurrent(player, 0) = gen.media)
          => LET c == CursorValue(player)
                 lst == player.playlist
             IN  /\ player'.playlist = ListDel(lst, c)
                 /\ IF c + 1 < Len(lst)
                    THEN GetCurrent(player', 0) = lst[c + 2]
                    ELSE CursorValue(player') = None
       /\ (gen.pc = "generate_frames" /\ gen'.pc # gen.pc /\ ~shutdown_event
             /\ player.cursor_mode = PLAY_AND_DELETE /\ CursorValue(player) = None)
          => gen'.pc = "placeholder"]_vars

\* two tracks were played and removed one after the other and the producer
\* is in the keep-alive loop
C16_Witness ==
    /\ player.cursor_mode = PLAY_AND_DELETE
    /\ created >= 2
    /\ player.playlist = <<>>
    /\ gen.pc = "placeholder"
    /\ gen.caller = "idle"

\* run() has returned and the encoder context is closed
Terminated == gen.pc = "done" /\ context.closed

(***************************************************************************)
(* C20: from any producer mode (idle keep-alive, pause filler, track       *)
(* playback, pacer wait), once stop() has set the latch, under fair        *)
(* scheduling the run loop stops pulling frames and run() terminates with  *)
(* the encoder context closed; the latch, once set, is never cleared.      *)
(***************************************************************************)
C20_StopTerminates ==
    /\ shutdown_event ~> Terminated
    /\ [][shutdown_event => shutdown_event']_vars

\* stop() was called while a track was open and the player was paused, and
\* run() has returned
C20_Witness ==
    /\ Terminated
    /\ ~player.is_playing
    /\ gen.closing

(***************************************************************************)
(* C19: after is_playing is set to false while a track is playing, the     *)
(* producer emits at most one more decoded frame of the track, also when   *)
(* the next decoded frames are audio frames and when the track has no      *)
(* video stream: once hist.paused_emit records a decoded frame emitted     *)
(* since the pause, the decode path yields no further decoded frame while  *)
(* is_playing is false.                                                    *)
(***************************************************************************)
C19_PauseHoldsDecodedFrames ==
    [][(~player.is_playing /\ hist.paused_emit
          /\ gen.pc \in {"decode", "visual"} /\ gen'.pc = "run_check")
          => frame'.id # "decoded"]_vars

(***************************************************************************)
(* C21: on every exit path of run() the encoder context is closed while    *)
(* the output container is still open, so that no packet is muxed into the *)
(* container after it has been closed: the step in which close() runs is   *)
(* taken in a state where the container is open.                           *)
(***************************************************************************)
C21_ClosedWhileContainerOpen ==
    [][(~context.closed /\ context'.closed) => context.container_open]_vars

(***************************************************************************)
(* C22: if opening the media file of the current track fails, the latch    *)
(* stays unset and the broadcaster keeps running: as long as stop() has    *)
(* not been called, a failed av.open neither sets the latch nor takes the  *)
(* broadcaster out of the run loop.                                        *)
(***************************************************************************)
C22_OpenFailureKeepsRunning ==
    (gen.error /\ cmd.count = 0)
       => /\ ~shutdown_event
          /\ gen.pc \notin {"run_exit", "run_finally", "done"}

(***************************************************************************)
(* The broadcast when no command but stop() runs and an encode/mux call of *)
(* the run loop may fail.                                                  *)
(***************************************************************************)
NextFault ==
    \/ Producer(SoloMaxVideoPts, SoloMaxAudioFrames)
    \/ RunEncodeFails(SoloMaxVideoPts, SoloMaxAudioFrames)
    \/ Stop

SpecFault == InitSolo /\ [][NextFault]_vars

C24_CachedFramesSkipFilters ==
    [][(gen.pc = "run_encode" /\ gen'.pc # gen.pc)
          => IF frame = SilenceFrame \/ frame = PlaceholderFrame
             THEN context' = IF frame.kind = "audio"
                             THEN EncodeAudioFrame(context, frame.samples)
                             ELSE EncodeVideoFrame(context)
             ELSE IF frame.kind = "audio"
             THEN \E outs \in AudioFilterOut(TrackSamples) :
                     context' = EncodeAudio(context, TRUE, frame.samples, TRUE, outs)
             ELSE \E n \in VideoFilterOut :
                     context' = EncodeVideo(context, TRUE, TRUE, n)]_vars

\* the cached placeholder frame has been encoded in place of a decoded video
\* frame of a track whose video graph exists
C24_Witness ==
    /\ player.visual_mode = VIDEO_PLACEHOLDER
    /\ player.is_playing
    /\ context.video_graph
    /\ context.offset_video_pts >= 1
    /\ context.offset_audio_pts = 0
    /\ gen.pc = "decode"
    /\ frame = NoFrame

(***************************************************************************)
(* The broadcast when the only command is set_visual_mode.                 *)
(***************************************************************************)
NextVisual == Producer(SoloMaxVideoPts, SoloMaxAudioFrames) \/ CmdSetVisualMode

SpecVisual == InitSolo /\ [][NextVisual]_vars

(***************************************************************************)
(* C25: for each decoded video frame of a track that leaves the pause      *)
(* filler, the frame handed on is chosen by the visual_mode read at that   *)
(* frame: the cached placeholder for VIDEO_PLACEHOLDER, the thumbnail of   *)
(* the track (the cached placeholder when the track has none) for          *)
(* VIDEO_THUMBNAIL, the decoded frame for VIDEO_CONTENT.  A change of      *)
(* visual_mode leaves the frame already emitted as it is, and a decoded    *)
(* audio frame is emitted as it is in every mode.                          *)
(***************************************************************************)
C25_VisualModePerFrame ==
    [][/\ (gen.pc = "visual" /\ gen'.pc # gen.pc)
          => /\ player.visual_mode = VIDEO_PLACEHOLDER => frame' = PlaceholderFrame
             /\ player.visual_mode = VIDEO_THUMBNAIL
                   => frame' = IF gen.thumb_cached THEN PlaceholderFrame
                               ELSE ThumbnailFrame(gen.media)
             /\ player.visual_mode = VIDEO_CONTENT
                   => frame' = DecodedFrame("video", gen.media)
       /\ (gen.pc = "decode" /\ gen'.pc = "run_check")
          => frame' = DecodedFrame("audio", gen.media)
       /\ player'.visual_mode # player.visual_mode
          => (frame' = frame /\ gen' = gen /\ context' = context)]_vars

\* after a command changed visual_mode, the second video frame of a track
\* is emitted as the cached placeholder
C25_Witness ==
    /\ cmd.count >= 1
    /\ player.visual_mode = VIDEO_PLACEHOLDER
    /\ player.is_playing
    /\ gen.pc = "run_check"
    /\ gen.media # NoAsset
    /\ frame = PlaceholderFrame
    /\ context.offset_video_pts >= 1

C27_CursorReadUnderLock ==
    [][\A t \in Threads :
          (race.active /\ race.pc[t] = "select" /\ race'.pc[t] = "done")
             => race.index[t] = IF race.op[t].name = "next"
                                THEN NextIndex(player, race.op[t].a)
                                ELSE PrevIndex(player, race.op[t].a)]_vars

(***************************************************************************)
(* C30: for any playlist state, append(m) followed by remove(len - 1),     *)
(* the index of the element just appended, restores the playlist to the    *)
(* same sequence of assets as before the append.                           *)
(***************************************************************************)
C30_AppendRemoveRestores ==
    LET q == Append_(player, created + 1)
    IN  Remove(q, Len(q.playlist) - 1).playlist = player.playlist

\* the second asset was appended to a playlist of one and removed again
C30_Witness ==
    /\ created = 2
    /\ player.playlist = <<1>>

(***************************************************************************)
(* The broadcast with the wall clock when no command but stop() runs.      *)
(***************************************************************************)
\* the playlist holds one track or none when the broadcaster starts
InitPacer ==
    /\ \E cm \in StreamCursorMode, n \in 0..1 :
          /\ player = AppendAll(NewPlayer(VIDEO_CONTENT, cm), 0, n)
          /\ created = n
    /\ race = NoRace
    /\ StreamAtRest

NextPacer ==
    \/ Broadcaster(PacerMaxVideoPts, PacerMaxAudioFrames)
    \/ RunEncodePaced(PacerMaxVideoPts, PacerMaxAudioFrames)
    \/ RunWaitPaced
    \/ Stop

SpecPacer == InitPacer /\ [][NextPacer]_vars

(***************************************************************************)
(* C28: after each encoded frame the pacer waits only if the output        *)
(* duration is ahead of the elapsed wall-clock time by more than 1 ms, and *)
(* then for min(lead, 50 ms); it does not wait when the output is behind,  *)
(* and a wait returns at once when the latch is set (otherwise when the    *)
(* time asked for has passed).                                             *)
(***************************************************************************)
C28_PacerWaits ==
    [][/\ (gen.pc = "run_encode" /\ gen'.pc # gen.pc)
          => LET lead == Duration(context') - pacer'.elapsed
             IN  /\ (gen'.pc = "run_wait") = (1000 * lead > TimeScale)
                 /\ gen'.pc = "run_wait"
                       => pacer'.wait = Min(lead, (50 * TimeScale) \div 1000)
                 /\ lead <= 0 => gen'.pc # "run_wait"
       /\ (gen.pc = "run_wait" /\ gen'.pc # gen.pc)
          => pacer'.elapsed = pacer.elapsed + (IF shutdown_event THEN 0 ELSE pacer.wait)
      ]_vars

\* the output is more than 50 ms ahead of the clock and the pacer has asked
\* for a wait of 50 ms
C28_Witness ==
    /\ gen.pc = "run_wait"
    /\ Duration(context) - pacer.elapsed > MAX_SYNC_DELAY
    /\ pacer.wait = MAX_SYNC_DELAY

(***************************************************************************)
(* The broadcast of an empty playlist with the wall clock.                 *)
(***************************************************************************)
NextPacerIdle ==
    \/ GenerateFrames
    \/ Placeholder
    \/ PlaceholderSync
    \/ RunCheck
    \/ RunEncodePaced(PacerIdleMaxVideoPts, PacerIdleMaxAudioFrames)
    \/ RunWaitPaced

SpecPacerIdle == InitIdle /\ [][NextPacerIdle]_vars

(***************************************************************************)
(* C29: in idle mode (empty playlist), with every requested wait fully     *)
(* served, after each pacer step the output duration of the encoder        *)
(* exceeds the elapsed wall-clock time by no more than 100 ms.             *)
(***************************************************************************)
C29_IdleLeadBounded ==
    gen.pc # "run_wait" => 10 * (Duration(context) - pacer.elapsed) <= TimeScale

\* the keep-alive has run for more than 100 ms of output, every wait was
\* served, and the pacer has just let the run loop go on
C29_Witness ==
    /\ 10 * Duration(context) > TimeScale
    /\ pacer.elapsed >= 3 * VideoTick
    /\ pacer.wait = 0
    /\ gen.pc = "placeholder_sync"

\* a playlist of one track under LOOP_PLAYLIST with the cursor on it
SingleLooped(p) ==
    /\ p.cursor_mode = LOOP_PLAYLIST
    /\ Len(p.playlist) = 1
    /\ CursorValue(p) = 0

(***************************************************************************)
(* C31: with a single-element playlist under LOOP_PLAYLIST and cursor 0,   *)
(* next() leaves the cursor at 0 and the playlist unchanged (as a call and *)
(* as the producer's step at the end of the track), and after the track    *)
(* has ended the producer opens the same track again.                      *)
(***************************************************************************)
C31_SingleLoopReplays ==
    /\ [](SingleLooped(player) =>
             /\ CursorValue(Next_(player, 1)) = 0
             /\ Next_(player, 1).playlist = player.playlist)
    /\ [][/\ (gen.pc = "next_select" /\ gen'.pc # gen.pc /\ SingleLooped(player)
                /\ gen.index = NextIndex(player, 1))
             => (SingleLooped(player') /\ player'.playlist = player.playlist)
          /\ (gen.pc = "generate_frames" /\ gen'.pc # gen.pc /\ ~shutdown_event
                /\ SingleLooped(player) /\ gen.prev_media # NoAsset)
             => (gen'.pc = "open" /\ gen'.media = gen.prev_media)]_vars

\* the only track of a looped playlist has ended and is open again
C31_Witness ==
    /\ SingleLooped(player)
    /\ gen.pc = "decode"
    /\ gen.media = player.playlist[1]
    /\ gen.prev_media = gen.media

(***************************************************************************)
(* C32: while visual_mode is VIDEO_PLACEHOLDER or VIDEO_THUMBNAIL during   *)
(* the whole playback of a track, no decoded video frame of that track is  *)
(* emitted to the encoder, including while playback is paused: the frame   *)
(* the run loop is about to encode is never a decoded video frame.         *)
(***************************************************************************)
C32_NoDecodedVideoUnderPlaceholder ==
    (player.visual_mode # VIDEO_CONTENT /\ gen.pc = "run_encode")
       => ~(frame.kind = "video" /\ frame.id = "decoded")

(***************************************************************************)
(* C33: if the cursor moves to another track while playback is paused on   *)
(* track A, the producer leaves track A at the next frame boundary without *)
(* waiting for is_playing to become true again: when the pause filler      *)
(* tests its loop condition and the current asset is no longer the opened  *)
(* track, it does not start another keep-alive cycle with A's held frame.  *)
(***************************************************************************)
C33_CursorMoveEndsPause ==
    [][(gen.pc = "pause" /\ gen'.pc # gen.pc
          /\ ~player.is_playing /\ ~shutdown_event
          /\ GetCurrent(player, 0) \notin {gen.media, NoAsset})
          => gen'.pc # "placeholder"]_vars

(***************************************************************************)
(* One run of the placeholder keep-alive with the cached frames, started   *)
(* with the counters any earlier playback may have left behind.            *)
(***************************************************************************)
InitKeepAlive ==
    /\ \E vm \in StreamVisualMode, cm \in StreamCursorMode : player = NewPlayer(vm, cm)
    /\ created = 0
    /\ race = NoRace
    /\ \E v \in 0..GapMaxVideoPts, k \in 0..GapMaxAudioFrames, size \in AudioSamples :
          context = [NewContext EXCEPT !.offset_video_pts = v,
                                       !.offset_audio_pts = k * size]
    /\ shutdown_event = FALSE
    /\ gen = [NewGen EXCEPT !.pc = "placeholder"]
    /\ frame = NoFrame
    /\ cmd = NewCmd
    /\ hist = NewHist
    /\ pacer = NewPacer

\* the counters such a run can reach stay below twice the sum of the two
\* starting bounds
KeepAliveCap == 2 * (GapMaxVideoPts + GapMaxAudioFrames)

\* the run loop pulling the frames of that run
KeepAliveRun ==
    \/ Placeholder
    \/ PlaceholderSync
    \/ RunCheck
    \/ RunEncode(KeepAliveCap, KeepAliveCap)
    \/ RunWait

NextKeepAlive == KeepAliveRun \/ Stop

\* the broadcaster thread is scheduled as long as it can take a step
SpecKeepAlive == InitKeepAlive /\ [][NextKeepAlive]_vars /\ WF_vars(KeepAliveRun)

\* the keep-alive run is over: _generate_placeholder_frames has returned
\* or the run loop has dropped the generator
KeepAliveOver == gen.pc \in {"generate_frames", "run_exit"}

(***************************************************************************)
(* C34: each frame the placeholder keep-alive emits with the cached frames *)
(* is the video frame when video_duration <= audio_duration (ties go to    *)
(* video) and the silent audio frame otherwise, and a keep-alive run       *)
(* started from any finite A/V gap ends after finitely many frames, in a   *)
(* state with |audio_duration - video_duration| <= 50 ms unless the latch  *)
(* was set before.                                                         *)
(***************************************************************************)
C34_KeepAliveClosesGap ==
    /\ [][(gen.pc = "placeholder" /\ gen'.pc = "run_check")
             => frame' = IF VideoDuration(context) <= AudioDuration(context)
                         THEN PlaceholderFrame
                         ELSE SilenceFrame]_vars
    /\ <>KeepAliveOver
    /\ [](KeepAliveOver => (shutdown_event \/ IsAudioVideoSynced(context)))

\* a run that started with the video lane more than 50 ms ahead has ended
\* in sync after more than one silent frame
C34_Witness ==
    /\ KeepAliveOver
    /\ ~shutdown_event
    /\ context.video_pts = <<>>
    /\ Len(context.audio_pts) >= 2
    /\ IsAudioVideoSynced(context)

(***************************************************************************)
(* C35: while playback is paused on a track and the latch is unset, the    *)
(* producer keeps emitting frames so that audio_duration and               *)
(* video_duration keep increasing, and each keep-alive cycle of the pause  *)
(* filler ends with |audio_duration - video_duration| <= 50 ms.  The       *)
(* filler picks its frame from the two durations alone, so they keep       *)
(* increasing only if every frame it emits advances the lane it is emitted *)
(* for: the encode step of a frame of the pause filler increases           *)
(* video_duration for the held frame and audio_duration for the silent     *)
(* frame, and a cycle returns to the pause test only in sync.              *)
(***************************************************************************)
C35_PauseFillerAdvances ==
    [][/\ (gen.pc = "run_encode" /\ gen'.pc # gen.pc /\ ~shutdown_event
             /\ gen.caller = "pause" /\ gen.resume = "placeholder_sync")
          => IF frame.kind = "video"
             THEN VideoDuration(context') > VideoDuration(context)
             ELSE AudioDuration(context') > AudioDuration(context)
       /\ (gen.pc = "placeholder_sync" /\ gen.caller = "pause" /\ gen'.pc = "pause")
          => IsAudioVideoSynced(context)]_vars

(***************************************************************************)
(* The idle producer, its lanes within the tolerance of each other, while  *)
(* cmd_play appends tracks: followed until the first track is opened.      *)
(***************************************************************************)
InitAppendIdle == InitKeepAlive /\ IsAudioVideoSynced(context)

\* the broadcaster thread up to the opening of a track
IdleUntilOpen ==
    \/ KeepAliveRun
    \/ GenerateFrames
    \/ OpenTrack

NextAppendIdle == IdleUntilOpen \/ CmdPlay

\* the broadcaster thread is scheduled as long as it can take a step
SpecAppendIdle == InitAppendIdle /\ [][NextAppendIdle]_vars /\ WF_vars(IdleUntilOpen)

\* _process_track has tried to open a track
Opened == gen.pc \in {"decode", "flush"}

(***************************************************************************)
(* C36: when a track is appended while the producer is idle with the A/V   *)
(* gap at most 50 ms, the producer opens that track after one keep-alive   *)
(* cycle at most: with a current track, the sync test after a placeholder  *)
(* frame ends the cycle, the loop of generate_frames then opens the        *)
(* current track, and (while the counters are a frame below the explored   *)
(* range) a current track always leads to the opening of a track.          *)
(***************************************************************************)
C36_AppendEndsIdle ==
    /\ [][(GetCurrent(player, 0) # NoAsset /\ gen.media = NoAsset /\ gen'.pc # gen.pc)
             => /\ gen.pc = "placeholder_sync" => gen'.pc = "generate_frames"
                /\ gen.pc = "generate_frames"
                      => (gen'.pc = "open" /\ gen'.media = GetCurrent(player, 0))]_vars
    /\ (GetCurrent(player, 0) # NoAsset
          /\ WithinCaps(context, KeepAliveCap - 1, KeepAliveCap - 1))
       ~> Opened

\* a track appended while a placeholder frame was on its way to the
\* encoder has been opened
C36_Witness ==
    /\ gen.pc = "decode"
    /\ gen.media = 1
    /\ Len(context.video_pts) + Len(context.audio_pts) >= 2

OutOfRangeAfterDelete(p) ==
    {i \in IndexArgs : ~(0 <= i /\ i < Len(p.playlist) - 1)}

(***************************************************************************)
(* C38 as stated: select(i) under PLAY_AND_DELETE with a current track and *)
(* an index i that is out of range after the deletion removes the current  *)
(* track, raises no exception, and leaves the cursor at                    *)
(* min(old_cursor, new_size - 1), or none when the playlist became empty.  *)
(***************************************************************************)
C38_SelectLeavesClamp ==
    (player.cursor_mode = PLAY_AND_DELETE /\ CursorValue(player) # None) =>
        \A i \in OutOfRangeAfterDelete(player) :
            LET c == CursorValue(player)
                q == Select(player, i)
            IN  /\ q.playlist = ListDel(player.playlist, c)
                /\ ~q.raised
                /\ CursorValue(q) = IF Len(q.playlist) = 0 THEN None
                                    ELSE Min(c, Len(q.playlist) - 1)

(***************************************************************************)
(* C38 as amended: select(i) under PLAY_AND_DELETE with a current track    *)
(* and an index i that is out of range after the deletion removes the      *)
(* current track, raises no exception, and leaves the stored cursor as it  *)
(* was: the cursor is old_cursor, on the track that followed the deleted   *)
(* one, when old_cursor <= new_size - 1, and none when the deleted track   *)
(* was the last one or the only one.                                       *)
(***************************************************************************)
C38_SelectLeavesCursor ==
    (player.cursor_mode = PLAY_AND_DELETE /\ CursorValue(player) # None) =>
        \A i \in OutOfRangeAfterDelete(player) :
            LET c == CursorValue(player)
                q == Select(player, i)
            IN  /\ q.playlist = ListDel(player.playlist, c)
                /\ ~q.raised
                /\ IF c <= Len(q.playlist) - 1
                   THEN /\ CursorValue(q) = c
                        /\ GetCurrent(q, 0) = player.playlist[c + 2]
                   ELSE /\ CursorValue(q) = None
                        /\ GetCurrent(q, 0) = NoAsset

\* the last of two tracks is current under PLAY_AND_DELETE: select() with
\* an index past the end deletes it and the cursor is none, not 0
C38_Witness ==
    /\ player.cursor_mode = PLAY_AND_DELETE
    /\ Len(player.playlist) = 2
    /\ CursorValue(player) = 1
    /\ Select(player, MaxAssets).playlist = <<player.playlist[1]>>
    /\ CursorValue(Select(player, MaxAssets)) = None

(***************************************************************************)
(* run() from its start: the output container is open and the AVContext    *)
(* exists when the StreamerState is built, and prepare_video_frame raises  *)
(* FileNotFoundError when the placeholder image does not exist.            *)
(***************************************************************************)
InitStartup ==
    /\ \E vm \in StreamVisualMode, cm \in StreamCursorMode, n \in 0..MaxAssets,
          playing \in BOOLEAN :
         \E c \in (IF n = 0 THEN {None} ELSE 0..(n - 1)) :
            /\ player = [AppendAll(NewPlayer(vm, cm), 0, n) EXCEPT
                            !.cursor = c, !.is_playing = playing]
            /\ created = n
    /\ race = NoRace
    /\ context = NewContext
    /\ shutdown_event = FALSE
    /\ gen = [NewGen EXCEPT !.pc = "run_start"]
    /\ frame = NoFrame
    /\ cmd = NewCmd
    /\ hist = NewHist
    /\ pacer = NewPacer

\* run(): StreamerState(..., video_frame=prepare_video_frame(placeholder));
\* self._run_streaming().  The FileNotFoundError leaves the with block and
\* is caught by except OSError
RunStart ==
    /\ gen.pc = "run_start"
    /\ \E exists \in BOOLEAN :
          gen' = IF exists
                 THEN [gen EXCEPT !.pc = "generate_frames"]
                 ELSE [gen EXCEPT !.pc = "run_exit", !.failed = TRUE]
    /\ UNCHANGED <<player, created, context, shutdown_event, frame, cmd, hist, race, pacer>>

NextStartup == RunStart \/ Producer(SoloMaxVideoPts, SoloMaxAudioFrames) \/ Stop

SpecStartup == InitStartup /\ [][NextStartup]_vars

RECURSIVE SamplesOf(_)
\* the samples of a sequence of audio frames, outs their sample counts
SamplesOf(outs) ==
    IF Len(outs) = 0 THEN 0 ELSE Head(outs) + SamplesOf(Tail(outs))

(***************************************************************************)
(* C40: flush() releases both filter graphs and never resets or decreases  *)
(* offset_video_pts or offset_audio_pts: the counters grow only by the     *)
(* frames drained from the graphs (n video frames, the samples of the      *)
(* audio frames outs), and flush() with no graph changes nothing.  Stated  *)
(* of flush() called in every reachable state of the context and of every  *)
(* step that releases a graph.                                             *)
(***************************************************************************)
C40_FlushKeepsOffsets ==
    /\ [](\A outs \in AudioFilterOut(AudioSamples), n \in VideoFilterOut :
             LET f == FlushGraphs(context, outs, n) IN
             /\ ~f.video_graph /\ ~f.audio_graph
             /\ f.offset_video_pts =
                   context.offset_video_pts + (IF context.video_graph THEN n ELSE 0)
             /\ f.offset_audio_pts =
                   context.offset_audio_pts
                      + (IF context.audio_graph THEN SamplesOf(outs) ELSE 0)
             /\ (~context.video_graph /\ ~context.audio_graph) => f = context)
    /\ [][((context.video_graph /\ ~context'.video_graph)
              \/ (context.audio_graph /\ ~context'.audio_graph))
             => /\ ~context'.video_graph /\ ~context'.audio_graph
                /\ context'.offset_video_pts >= context.offset_video_pts
                /\ context'.offset_audio_pts >= context.offset_audio_pts
                /\ context'.offset_video_pts - context.offset_video_pts
                      = Len(context'.video_pts) - Len(context.video_pts)]_vars

\* both graphs were flushed after frames had been encoded on both lanes,
\* and the counters are where the encoders left them
C40_Witness ==
    /\ ~context.video_graph /\ ~context.audio_graph
    /\ context.offset_video_pts = MaxVideoPts
    /\ context.offset_audio_pts >= AUDIO_FRAME_SIZE
    /\ Len(context.video_pts) = MaxVideoPts

=============================================================================
